---- MODULE Spec2Model ----
(***************************************************************************)
(* The data-model layer of the blog (backend/app/models.py): the users,    *)
(* posts and Pages tables, the write-only password property of User, and   *)
(* Post.is_visible.  The tables are the state; the operations are the      *)
(* methods of the three classes and the inserts, updates and deletes the   *)
(* persistence layer performs on their rows, with the constraints, column  *)
(* defaults and onupdate values that the Column declarations give them.    *)
(*                                                                         *)
(* Encodings.  A Python str is a sequence of character codes.  A nullable  *)
(* string column holds a record [null, s]; None is [null |-> TRUE].  A     *)
(* nullable DateTime column holds a tick, or NoDate for None; a nullable   *)
(* integer foreign key holds an id, or NoUser for None.  datetime.now() is *)
(* the variable clock.                                                     *)
(***************************************************************************)
EXTENDS Integers, Sequences, FiniteSets

\* ------------------------------------------------------------------ bounds
MaxUsers == 2
MaxPosts == 1
MaxPages == 2
MaxClock == 2
NumPasswords == 2
NumSalts == 2
NumNames == 2
NumEmails == 1
NumTexts == 2

\* ------------------------------------------------------------- encodings
NoDate == 0 - 1
NoUser == 0
Dollar == 36

None == [null |-> TRUE, s |-> <<>>]
Str(s) == [null |-> FALSE, s |-> s]

Passwords == { <<96 + i>> : i \in 1..NumPasswords }
Salts == { <<64 + i>> : i \in 1..NumSalts }
Usernames == { Str(<<48 + i>>) : i \in 1..NumNames }
Emails == { Str(<<48 + i, 64>>) : i \in 1..NumEmails }
Texts == { Str(<<32 + i>>) : i \in 1..NumTexts }
Times == 0..MaxClock
Title == Str(<<84>>)
Slug == Str(<<83>>)

\* ------------------------------------------------ werkzeug.security hashes
Method == <<112>>

\* The digest of a password under a salt, as a collision-free function: a
\* string that determines (salt, password) and holds no "$".  That the digest
\* cannot be inverted is not modelled.
Digest(salt, password) == <<35>> \o salt \o <<35>> \o password

\* str.count("$")
RECURSIVE Count(_, _)
Count(s, c) ==
  IF s = <<>> THEN 0
  ELSE (IF Head(s) = c THEN 1 ELSE 0) + Count(Tail(s), c)

\* The index of the first c in s, or 0.
RECURSIVE Find(_, _, _)
Find(s, c, i) ==
  IF i > Len(s) THEN 0
  ELSE IF s[i] = c THEN i
  ELSE Find(s, c, i + 1)

\* s.split("$", 2) for a string with at least two "$": the three parts.
Split2(s) ==
  LET i == Find(s, Dollar, 1)
      j == Find(s, Dollar, i + 1)
  IN  << SubSeq(s, 1, i - 1), SubSeq(s, i + 1, j - 1), SubSeq(s, j + 1, Len(s)) >>

\* Mutant of generate_password_hash: the password is kept as it is.
generate_password_hash_plain(password, salt) == password

\* generate_password_hash(password) with the random salt it drew:
\* method$salt$digest

generate_password_hash(password, salt) ==
  Method \o <<Dollar>> \o salt \o <<Dollar>> \o Digest(salt, password)

\* Mutant of check_password_hash: any candidate passes a well-formed hash.
check_password_hash_any(pwhash, password) ==
  IF pwhash.null THEN [exc |-> "AttributeError", value |-> FALSE]
  ELSE [exc |-> "none", value |-> Count(pwhash.s, Dollar) >= 2]

\* check_password_hash(pwhash, password): [exc, value].  pwhash.count("$") on
\* None raises AttributeError; fewer than two "$" is False; otherwise the
\* digest of the candidate under the stored salt is compared with the stored one.
check_password_hash(pwhash, password) ==
  IF pwhash.null THEN [exc |-> "AttributeError", value |-> FALSE]
  ELSE IF Count(pwhash.s, Dollar) < 2 THEN [exc |-> "none", value |-> FALSE]
  ELSE LET parts == Split2(pwhash.s)
       IN  [exc |-> "none", value |-> Digest(parts[2], password) = parts[3]]

\* ------------------------------------------------------------------ state
VARIABLES
  users,      \* the users table: id -> row
  posts,      \* the posts table: id -> row
  pages,      \* the Pages table: id -> row
  clock,      \* what datetime.datetime.now() returns
  loaded_at,  \* the clock when the module was imported (class bodies ran)
  assigned,   \* history: id -> the plaintext last assigned to User.password
  ret         \* the outcome of the last operation

vars == << users, posts, pages, clock, loaded_at, assigned, ret >>

\* op: the operation; id: the row it was about (0: none); arg: its string
\* argument; at: the clock when it ran; exc: the exception it raised or "none";
\* value: the boolean it returned (FALSE when it returns None or raises).
Ret(op, id, arg, exc, value) ==
  [op |-> op, id |-> id, arg |-> arg, at |-> clock, exc |-> exc, value |-> value]

Init ==
  /\ users = << >>
  /\ posts = << >>
  /\ pages = << >>
  /\ clock = 0
  /\ loaded_at = clock
  /\ assigned = << >>
  /\ ret = [op |-> "import", id |-> 0, arg |-> <<>>, at |-> 0,
            exc |-> "none", value |-> FALSE]

\* f without the key k
Without(f, k) == [x \in DOMAIN f \ {k} |-> f[x]]
\* f with the key k bound to v
With(f, k, v) == [x \in DOMAIN f \cup {k} |-> IF x = k THEN v ELSE f[x]]

\* ------------------------------------------------------------------- User
\* Mutant of users_constraints: email is not declared unique.
users_constraints_username_only(row, others) ==
  /\ ~row.username.null
  /\ \A o \in DOMAIN others : others[o].username # row.username

\* The constraints of the users table: username NOT NULL and UNIQUE, email
\* UNIQUE (any number of NULLs).
users_constraints(row, others) ==
  /\ ~row.username.null
  /\ \A o \in DOMAIN others : others[o].username # row.username
  /\ row.email.null \/ \A o \in DOMAIN others : others[o].email # row.email

\* db.session.add(User(username=..., email=..., is_admin=...)); commit().  The
\* new row gets an id no stored row has.
InsertUser ==
  \E username \in Usernames \cup {None}, email \in Emails \cup {None},
     is_admin \in BOOLEAN :
    LET row == [username |-> username, email |-> email,
                password_hash |-> None, is_admin |-> is_admin]
    IN  /\ \/ /\ users_constraints(row, users)
              /\ \E id \in 1..MaxUsers \ DOMAIN users :
                   /\ users' = With(users, id, row)
                   /\ assigned' = With(assigned, id, None)
                   /\ ret' = Ret("insert_user", id, <<>>, "none", FALSE)
           \/ /\ ~users_constraints(row, users)
              /\ ret' = Ret("insert_user", 0, <<>>, "IntegrityError", FALSE)
              /\ UNCHANGED << users, assigned >>
        /\ UNCHANGED << posts, pages, clock, loaded_at >>

\* Mutant of password_get: the getter returns the stored hash.
password_get_readable(u) ==
  Ret("password", u, <<>>, "none", ~users[u].password_hash.null)

\* User.password (getter)
password_get(u) ==
  Ret("password", u, <<>>, "AttributeError", FALSE)

ReadPassword ==
  \E u \in DOMAIN users :
    /\ ret' = password_get(u)
    /\ UNCHANGED << users, posts, pages, clock, loaded_at, assigned >>

\* User.password (setter); the salt is the random salt of generate_password_hash
SetPassword ==
  \E u \in DOMAIN users, password \in Passwords, salt \in Salts :
    /\ users' = [users EXCEPT ![u].password_hash =
                   Str(generate_password_hash(password, salt))]
    /\ assigned' = [assigned EXCEPT ![u] = Str(password)]
    /\ ret' = Ret("password.setter", u, password, "none", FALSE)
    /\ UNCHANGED << posts, pages, clock, loaded_at >>

\* User.verify_password
VerifyPassword ==
  \E u \in DOMAIN users, password \in Passwords :
    LET r == check_password_hash(users[u].password_hash, password)
    IN  /\ ret' = Ret("verify_password", u, password, r.exc, r.value)
        /\ UNCHANGED << users, posts, pages, clock, loaded_at, assigned >>

\* User.posts: the query "posts whose author is this user's id"
user_posts(u) == { p \in DOMAIN posts : posts[p].author = u }

\* db.session.delete(user); commit().  The relationship has no delete cascade:
\* the persistence layer first sets the author of the user's posts to NULL, an
\* UPDATE of those rows, which also applies the onupdate value of modified.
DeleteUser ==
  \E u \in DOMAIN users :
    /\ users' = Without(users, u)
    /\ assigned' = Without(assigned, u)
    /\ posts' = [p \in DOMAIN posts |->
                   IF p \in user_posts(u)
                   THEN [posts[p] EXCEPT !.author = NoUser, !.modified = loaded_at]
                   ELSE posts[p]]
    /\ ret' = Ret("delete_user", u, <<>>, "none", FALSE)
    /\ UNCHANGED << pages, clock, loaded_at >>

\* ------------------------------------------------------------------- Post
\* default=datetime.datetime.now() and onupdate=datetime.datetime.now(): the
\* call is evaluated once, when the class body runs, and the Column keeps its
\* result as a scalar default.
post_created_default == loaded_at
post_modified_onupdate == loaded_at

\* Mutant of posts_constraints: author is a plain integer column.
posts_constraints_no_foreign_key(row) ==
  /\ ~row.title.null
  /\ ~row.summary.null
  /\ ~row.body.null

\* The constraints of the posts table: title, summary and body NOT NULL;
\* author NULL or the id of a row of users.
posts_constraints(row) ==
  /\ ~row.title.null
  /\ ~row.summary.null
  /\ ~row.body.null
  /\ row.author = NoUser \/ row.author \in DOMAIN users

\* db.session.add(Post(title=..., summary=..., body=..., pub_date=...,
\* author=..., slug=...)); commit().  created takes its default, modified has
\* none.  The new row gets an id no stored row has.
InsertPost ==
  \E title \in {Title, None}, author \in 0..MaxUsers :
    LET row(body, pub_date) ==
          [title |-> title, summary |-> Str(<<>>), body |-> body,
           created |-> post_created_default, modified |-> NoDate,
           pub_date |-> pub_date, author |-> author, slug |-> Slug]
    IN  /\ \/ \E body \in Texts, pub_date \in Times \cup {NoDate} :
                /\ posts_constraints(row(body, pub_date))
                /\ \E id \in 1..MaxPosts \ DOMAIN posts :
                     /\ posts' = With(posts, id, row(body, pub_date))
                     /\ ret' = Ret("insert_post", id, <<>>, "none", FALSE)
           \/ /\ ~ \A body \in Texts, pub_date \in Times \cup {NoDate} :
                     posts_constraints(row(body, pub_date))
              /\ ret' = Ret("insert_post", 0, <<>>, "IntegrityError", FALSE)
              /\ UNCHANGED posts
        /\ UNCHANGED << users, pages, clock, loaded_at, assigned >>

\* The rows a single assignment to a column of posts[p] can give:
\* post.body = ..., post.pub_date = ... or post.author = ...
post_assignments(p) ==
  { [posts[p] EXCEPT !.body = body] : body \in Texts }
    \cup { [posts[p] EXCEPT !.pub_date = pub_date] : pub_date \in Times \cup {NoDate} }
    \cup { [posts[p] EXCEPT !.author = author] : author \in 0..MaxUsers }

\* post.<column> = ...; commit().  An UPDATE is emitted only when the column
\* changed; it sets modified to its onupdate.
UpdatePost ==
  \E p \in DOMAIN posts :
    \E row \in post_assignments(p) :
      /\ \/ /\ row = posts[p]
            /\ ret' = Ret("update_post", p, <<>>, "none", FALSE)
            /\ UNCHANGED posts
         \/ /\ row # posts[p]
            /\ posts_constraints(row)
            /\ posts' = [posts EXCEPT ![p] =
                           [row EXCEPT !.modified = post_modified_onupdate]]
            /\ ret' = Ret("update_post", p, <<>>, "none", FALSE)
         \/ /\ row # posts[p]
            /\ ~posts_constraints(row)
            /\ ret' = Ret("update_post", p, <<>>, "IntegrityError", FALSE)
            /\ UNCHANGED posts
      /\ UNCHANGED << users, pages, clock, loaded_at, assigned >>

\* db.session.delete(post); commit()
DeletePost ==
  \E p \in DOMAIN posts :
    /\ posts' = Without(posts, p)
    /\ ret' = Ret("delete_post", p, <<>>, "none", FALSE)
    /\ UNCHANGED << users, pages, clock, loaded_at, assigned >>

\* bool(pub_date): None is false, every datetime is true
truthy(date) == date # NoDate

\* Mutants of is_visible: without the test of pub_date; with = for <=.
is_visible_unset_too(post, now) == post.pub_date <= now
is_visible_on_the_day(post, now) == truthy(post.pub_date) /\ post.pub_date = now

\* Post.is_visible, with datetime.datetime.now() = now
is_visible(post, now) == truthy(post.pub_date) /\ post.pub_date <= now

IsVisible ==
  \E p \in DOMAIN posts :
    /\ ret' = Ret("is_visible", p, <<>>, "none", is_visible(posts[p], clock))
    /\ UNCHANGED << users, posts, pages, clock, loaded_at, assigned >>

\* ------------------------------------------------------------------- Page
page_created_default == loaded_at
page_modified_onupdate == loaded_at

\* The constraints of the Pages table: title and text NOT NULL.
pages_constraints(row) == ~row.title.null /\ ~row.text.null

\* db.session.add(Page(title=..., text=...)); commit()
InsertPage ==
  \E title \in {Title, None}, text \in Texts :
    LET row == [title |-> title, text |-> text,
                created |-> page_created_default, modified |-> NoDate]
    IN  /\ \/ /\ pages_constraints(row)
              /\ \E id \in 1..MaxPages \ DOMAIN pages :
                   /\ pages' = With(pages, id, row)
                   /\ ret' = Ret("insert_page", id, <<>>, "none", FALSE)
           \/ /\ ~pages_constraints(row)
              /\ ret' = Ret("insert_page", 0, <<>>, "IntegrityError", FALSE)
              /\ UNCHANGED pages
        /\ UNCHANGED << users, posts, clock, loaded_at, assigned >>

\* page.text = ...; commit()
UpdatePage ==
  \E g \in DOMAIN pages, text \in Texts :
    /\ \/ /\ text = pages[g].text
          /\ UNCHANGED pages
       \/ /\ text # pages[g].text
          /\ pages' = [pages EXCEPT ![g].text = text,
                                    ![g].modified = page_modified_onupdate]
    /\ ret' = Ret("update_page", g, <<>>, "none", FALSE)
    /\ UNCHANGED << users, posts, clock, loaded_at, assigned >>

\* ------------------------------------------------------------------ clock
\* Time passes: datetime.datetime.now() returns a later value.
Tick ==
  /\ clock < MaxClock
  /\ clock' = clock + 1
  /\ UNCHANGED << users, posts, pages, loaded_at, assigned, ret >>

\* --------------------------------------------------------- specifications
\* The program touches disjoint columns in its four kinds of work, and each
\* is a specification of its own over the same state and the same actions.

\* Accounts: the rows of users and the credential operations of User.
NextAccounts ==
  \/ InsertUser
  \/ DeleteUser
  \/ ReadPassword
  \/ SetPassword
  \/ VerifyPassword

SpecAccounts == Init /\ [][NextAccounts]_vars

\* Authorship: users, posts and the foreign key between them.
NextAuthors ==
  \/ InsertUser
  \/ DeleteUser
  \/ InsertPost
  \/ UpdatePost
  \/ DeletePost

SpecAuthors == Init /\ [][NextAuthors]_vars

\* Publication: posts and the clock.
NextPosts ==
  \/ InsertPost
  \/ UpdatePost
  \/ DeletePost
  \/ IsVisible
  \/ Tick

SpecPosts == Init /\ [][NextPosts]_vars

\* The same, under a clock that keeps advancing.
LiveSpec == SpecPosts /\ WF_vars(Tick)

\* Pages and the clock.
NextPages ==
  \/ InsertPage
  \/ UpdatePage
  \/ Tick

SpecPages == Init /\ [][NextPages]_vars

\* Everything at once.
Next ==
  \/ NextAccounts
  \/ NextAuthors
  \/ NextPosts
  \/ NextPages

Spec == Init /\ [][Next]_vars

\* ----------------------------------------------------------------- claims
\* C1: after any sequence of password assignments to a User ending with the
\* plaintext P, verify_password returns without raising, and returns True
\* exactly for the candidate P.
C1_VerifyLastPassword ==
  (ret.op = "verify_password" /\ ~assigned[ret.id].null) =>
    /\ ret.exc = "none"
    /\ ret.value = (ret.arg = assigned[ret.id].s)

\* verify_password returned True on a User whose password had been assigned.
C1_Witness ==
  /\ ret.op = "verify_password"
  /\ ~assigned[ret.id].null
  /\ ret.value = TRUE

\* C2: reading User.password raises AttributeError whatever the state of the
\* User (no password, or one assigned), and the read changes no row of users.
C2_ReadAlwaysFails ==
  [][ret'.op = "password" =>
       /\ ret'.exc = "AttributeError"
       /\ users' = users]_vars

\* The read failed on a User whose password had been assigned.
C2_Witness ==
  /\ ret.op = "password"
  /\ ret.exc = "AttributeError"
  /\ ~users[ret.id].password_hash.null

\* No column of a row of users holds one of the plaintexts.
NoPlaintextStored ==
  \A u \in DOMAIN users, p \in Passwords :
    /\ users[u].username # Str(p)
    /\ users[u].email # Str(p)
    /\ users[u].password_hash # Str(p)

\* The stored hash of a User with a password assigned reads method$salt$digest
\* with one of the salts, and the digest is not the plaintext.
SaltedHashStored ==
  \A u \in DOMAIN users :
    ~assigned[u].null =>
      /\ ~users[u].password_hash.null
      /\ Count(users[u].password_hash.s, Dollar) = 2
      /\ Split2(users[u].password_hash.s)[2] \in Salts
      /\ Split2(users[u].password_hash.s)[3] # assigned[u].s

\* A password assignment writes password_hash of that User and nothing else.
SetterFrame ==
  (ret'.op = "password.setter") =>
    /\ DOMAIN users' = DOMAIN users
    /\ \A u \in DOMAIN users :
         /\ users'[u].username = users[u].username
         /\ users'[u].email = users[u].email
         /\ users'[u].is_admin = users[u].is_admin
         /\ u # ret'.id => users'[u] = users[u]

\* C3: no stored User column holds a plaintext password; an assignment stores
\* a salted hash that is not the plaintext, and changes only password_hash.
C3_PlaintextNeverStored ==
  /\ [](NoPlaintextStored /\ SaltedHashStored)
  /\ [][SetterFrame]_vars

\* A password was just assigned to a User.
C3_Witness ==
  /\ ret.op = "password.setter"
  /\ users[ret.id].password_hash
       \in { Str(generate_password_hash(ret.arg, salt)) : salt \in Salts }

\* C4: is_visible() returns False for a Post without pub_date, and otherwise
\* True exactly when pub_date <= now.
C4_VisibleIffPublished ==
  (ret.op = "is_visible") =>
    /\ ret.exc = "none"
    /\ ret.value = (IF posts[ret.id].pub_date = NoDate THEN FALSE
                    ELSE posts[ret.id].pub_date <= ret.at)

\* is_visible() returned True for a Post whose pub_date is the time of the call.
C4_Witness ==
  /\ ret.op = "is_visible"
  /\ ret.value = TRUE
  /\ posts[ret.id].pub_date = ret.at

\* A Post with pub_date = t is eventually visible, unless its pub_date is
\* changed or it is deleted first.
EventuallyVisible ==
  \A p \in 1..MaxPosts, t \in Times :
    (p \in DOMAIN posts /\ posts[p].pub_date = t) ~>
      \/ p \notin DOMAIN posts
      \/ posts[p].pub_date # t
      \/ is_visible(posts[p], clock)

\* A Post whose pub_date is later than the clock is not visible.
NotYetVisible ==
  \A p \in DOMAIN posts : posts[p].pub_date > clock => ~is_visible(posts[p], clock)

\* A visible Post whose pub_date is not changed by a step is visible after it.
StaysVisible ==
  \A p \in DOMAIN posts :
    (/\ is_visible(posts[p], clock)
     /\ p \in DOMAIN posts'
     /\ posts'[p].pub_date = posts[p].pub_date) => is_visible(posts'[p], clock')

\* A call of is_visible() writes nothing to posts.
IsVisibleFrame == (ret'.op = "is_visible") => posts' = posts

\* C5: a Post with a pub_date in the future is not visible; under an
\* advancing clock it becomes visible, and then stays visible while pub_date
\* is unchanged; is_visible() writes nothing.
C5_BecomesAndStaysVisible ==
  /\ []NotYetVisible
  /\ EventuallyVisible
  /\ [][StaysVisible]_vars
  /\ [][IsVisibleFrame]_vars

\* is_visible() returned False for a Post that, with nothing written since,
\* is visible now.
C5_Witness ==
  /\ ret.op = "is_visible"
  /\ ret.value = FALSE
  /\ ret.at < clock
  /\ is_visible(posts[ret.id], clock)

\* C6 (as claimed): every update of a stored Post or Page leaves created
\* unchanged and sets modified to the time of the update.
C6_ModifiedIsUpdateTime ==
  [][/\ \A p \in DOMAIN posts \cap DOMAIN posts' :
          posts'[p] # posts[p] =>
            /\ posts'[p].created = posts[p].created
            /\ posts'[p].modified = clock
     /\ \A g \in DOMAIN pages \cap DOMAIN pages' :
          pages'[g] # pages[g] =>
            /\ pages'[g].created = pages[g].created
            /\ pages'[g].modified = clock]_vars

\* C7 (as claimed): a Post or Page inserted without a created value gets the
\* time of its insertion as created.
C7_CreatedIsInsertionTime ==
  [][/\ \A p \in DOMAIN posts' \ DOMAIN posts : posts'[p].created = clock
     /\ \A g \in DOMAIN pages' \ DOMAIN pages : pages'[g].created = clock]_vars

\* No two rows of users share a username or a non-null email.
UsersUnique ==
  \A u, v \in DOMAIN users :
    u # v =>
      /\ users[u].username # users[v].username
      /\ users[u].email.null \/ users[u].email # users[v].email

\* A creation refused with an integrity error leaves users as it was.
RefusedInsertFrame ==
  (ret'.op = "insert_user" /\ ret'.exc = "IntegrityError") => users' = users

\* C8: usernames and non-null emails are unique among the stored Users; a
\* creation that would break this is refused and changes nothing.
C8_UsersUnique ==
  /\ []UsersUnique
  /\ [][RefusedInsertFrame]_vars

\* Two Users without email coexist, and a creation was just refused.
C8_Witness ==
  /\ ret.op = "insert_user"
  /\ ret.exc = "IntegrityError"
  /\ \E u, v \in DOMAIN users :
       u # v /\ users[u].email.null /\ users[v].email.null

\* The Users in whose posts collection the Post p appears.
Owners(p) == { u \in DOMAIN users : p \in user_posts(u) }

\* C9 (as claimed): every stored Post has its author set to the id of an
\* existing User, and is in the posts collection of that User and of no other.
C9_ExactlyOneOwner ==
  \A p \in DOMAIN posts :
    /\ posts[p].author # NoUser
    /\ posts[p].author \in DOMAIN users
    /\ Owners(p) = { posts[p].author }

\* C9 (amended): the author of a stored Post is unset or the id of an existing
\* User; a Post with an author is in the posts collection of that User and of
\* no other, and a Post without one is in no collection.
C9_AtMostOneOwner ==
  \A p \in DOMAIN posts :
    /\ posts[p].author # NoUser => posts[p].author \in DOMAIN users
    /\ Owners(p) = (IF posts[p].author = NoUser THEN {} ELSE { posts[p].author })

\* A Post with an author is stored beside a second User.
C9_Witness ==
  \E p \in DOMAIN posts :
    /\ posts[p].author \in DOMAIN users
    /\ Cardinality(DOMAIN users) = 2
    /\ Cardinality(Owners(p)) = 1

\* C10 (as claimed): verify_password with a candidate that does not match the
\* User's credential returns False without raising, also on a User to whom
\* no password was ever assigned.
C10_MismatchReturnsFalse ==
  (/\ ret.op = "verify_password"
   /\ assigned[ret.id].null \/ assigned[ret.id].s # ret.arg) =>
    /\ ret.exc = "none"
    /\ ret.value = FALSE

====
